---- MODULE Spec2Model ----
(***************************************************************************)
(* Model of the immersive-control plugin (src/main.py): the StateManager   *)
(* registry of timed states and cooldowns, the message trigger gate and    *)
(* the provider-request hook of Main, and the ConfigurationManager with    *)
(* the admin commands that rewrite its file.                               *)
(*                                                                         *)
(* Time.  time.time() returns a float; the model's clock counts ticks of   *)
(* 1/TicksPerSecond second, so that int() on a difference of timestamps    *)
(* really truncates.  Durations of the configuration are whole seconds.    *)
(*                                                                         *)
(* Threads.  Every StateManager method that reads the clock does so        *)
(* BEFORE it takes self.lock (main.py:234, 271, 288, 331), so such a call  *)
(* is two steps: the clock read (ReadClock), then the locked section       *)
(* (...Locked), which is atomic because self.lock is held throughout.      *)
(* _cleanup_expired_states reads the clock again, inside the lock.         *)
(*                                                                         *)
(* Configuration.  get_config re-reads the YAML file at every call and     *)
(* takes no lock; _save_config holds ConfigurationManager.lock while it    *)
(* truncates and rewrites the file (SaveOpen, SaveClose).  config is the   *)
(* record the file holds, config_loads whether it parses at this moment.   *)
(*                                                                         *)
(* Strings are sequences of one-character strings.                         *)
(***************************************************************************)
EXTENDS Integers, Sequences, FiniteSets, TLC

\* ------------------------------------------------------------------ bounds
TicksPerSecond == 2
MaxClock == 4
MaxDuration == 2
MaxCooldown == 2
MaxCap == 2
NumThreads == 2

Threads == 1..NumThreads

VARIABLES
    active_states,          \* StateManager.active_states: key -> end timestamp
    cooldowns,              \* StateManager.cooldowns: key -> cooldown end timestamp
    max_concurrent_states,  \* StateManager.max_concurrent_states
    clock,                  \* what time.time() returns now, in ticks
    config,                 \* the configuration record the YAML file holds
    th,                     \* per thread: where it is in a StateManager call
    handler,                \* the message handler: its position, its event, its reply
    lastAct,                \* history: per key, its last successful activation
    burst,                  \* history: per key, how its activate call of a burst ended
    config_lock,            \* ConfigurationManager.lock: the thread holding it, or 0
    config_loads,           \* whether _load_config can parse the file as it is now
    admin,                  \* per thread: where it is in an admin command or set_config
    llm                     \* the provider request before_llm_request is given

vars == <<active_states, cooldowns, max_concurrent_states, clock, config, th, handler,
          lastAct, burst, config_lock, config_loads, admin, llm>>

\* ----------------------------------------------------------------- strings
Empty == <<>>

\* (platform, session_id) of the conversations that send events
Sessions ==
    { [platform |-> Empty,   session_id |-> <<"a">>],
      [platform |-> <<"p">>, session_id |-> <<"a">>],
      [platform |-> Empty,   session_id |-> <<"p", "_", "a">>] }

\* f"{platform}_{session_id}" if platform else session_id
generate_state_key(session_id, platform) ==
    IF platform # Empty THEN platform \o <<"_">> \o session_id ELSE session_id

KeyOf(s) == generate_state_key(s.session_id, s.platform)

StateKeys == { KeyOf(s) : s \in Sessions }

\* ------------------------------------------------------------ dictionaries
\* del d[k]
Del(d, k) == [x \in (DOMAIN d) \ {k} |-> d[x]]

\* d[k] = v
Put(d, k, v) == [x \in (DOMAIN d) \cup {k} |-> IF x = k THEN v ELSE d[x]]

EmptyDict == [x \in {} |-> 0]

\* ------------------------------------------------------------------- time
\* seconds (int, from the configuration) as a difference of timestamps
Seconds(n) == n * TicksPerSecond

\* int(x) of a float x given in ticks: truncation toward zero
PyInt(x) == IF x >= 0 THEN x \div TicksPerSecond ELSE -((-x) \div TicksPerSecond)

Max0(n) == IF n > 0 THEN n ELSE 0

\* ------------------------------------------------------------ StateManager
\* a cleanup that purges nothing
CleanupExpired_Nothing(d, now) == d

\* a cleanup that empties the map
CleanupExpired_All(d, now) == [x \in {} |-> 0]

\* a cleanup that keeps an entry at the very instant of its end
CleanupExpired_Strict(d, now) == [x \in { k \in DOMAIN d : ~(now > d[k]) } |-> d[x]]

\* _cleanup_expired_states: the entries that survive, now being the clock it reads
CleanupExpired(d, now) == [x \in { k \in DOMAIN d : ~(now >= d[k]) } |-> d[x]]

\* the capacity test with > for >=
CapacityReached_OffByOne(as, max) == Cardinality(DOMAIN as) > max

\* a capacity test that never refuses
CapacityReached_Never(as, max) == FALSE

\* len(self.active_states) >= self.max_concurrent_states
CapacityReached(as, max) == Cardinality(DOMAIN as) >= max

\* if state_key in self.cooldowns: ... if current_time < cooldown_end
InCooldown(cd, k, t) == k \in DOMAIN cd /\ t < cd[k]

\* an already-active test that never finds the key active
AlreadyActive_Never(as, k, t) == FALSE

\* if state_key in self.active_states: if current_time < self.active_states[state_key]
AlreadyActive(as, k, t) == k \in DOMAIN as /\ t < as[k]

\* an end time without the duration
EndTime_NoDuration(t, d) == t

\* end_time = current_time + duration_seconds
EndTime(t, d) == t + Seconds(d)

\* a cooldown end without the cooldown
CooldownEnd_NoCooldown(t, c) == t

\* self.cooldowns[state_key] = current_time + cooldown_seconds
CooldownEnd(t, c) == t + Seconds(c)

\* an activate_state that checks the capacity before the cooldown and the
\* already-active state
ActivateOutcome_CapacityFirst(as, cd, max, k, t, d, c, now) ==
    LET as2 == CleanupExpired(as, now)
        cd2 == CleanupExpired(cd, now)
    IN  IF Cardinality(DOMAIN as2) >= max
        THEN [ok |-> FALSE, reason |-> "capacity", n |-> 0, as |-> as2, cd |-> cd2]
        ELSE IF k \in DOMAIN cd /\ t < cd[k]
        THEN [ok |-> FALSE, reason |-> "cooldown", n |-> PyInt(cd[k] - t), as |-> as, cd |-> cd]
        ELSE IF k \in DOMAIN as /\ t < as[k]
        THEN [ok |-> FALSE, reason |-> "active", n |-> PyInt(as[k] - t), as |-> as, cd |-> cd]
        ELSE [ok |-> TRUE, reason |-> "activated", n |-> d,
              as |-> Put(Del(as2, k), k, t + Seconds(d)),
              cd |-> Put(cd2, k, t + Seconds(c))]

\* an activate_state that starts the cooldown even when it refuses for capacity
ActivateOutcome_CooldownOnRefusal(as, cd, max, k, t, d, c, now) ==
    IF InCooldown(cd, k, t)
    THEN [ok |-> FALSE, reason |-> "cooldown", n |-> PyInt(cd[k] - t), as |-> as, cd |-> cd]
    ELSE IF AlreadyActive(as, k, t)
    THEN [ok |-> FALSE, reason |-> "active", n |-> PyInt(as[k] - t), as |-> as, cd |-> cd]
    ELSE LET as1 == Del(as, k)
             as2 == CleanupExpired(as1, now)
             cd2 == Put(CleanupExpired(cd, now), k, CooldownEnd(t, c))
         IN  IF CapacityReached(as2, max)
             THEN [ok |-> FALSE, reason |-> "capacity", n |-> 0, as |-> as2, cd |-> cd2]
             ELSE [ok |-> TRUE, reason |-> "activated", n |-> d,
                   as |-> Put(as2, k, EndTime(t, d)),
                   cd |-> cd2]

\* The locked section of activate_state: the result and the two maps after it.
\* t is current_time (read before the lock), now the clock that
\* _cleanup_expired_states reads inside the lock.
ActivateOutcome(as, cd, max, k, t, d, c, now) ==
    IF InCooldown(cd, k, t)
    THEN [ok |-> FALSE, reason |-> "cooldown", n |-> PyInt(cd[k] - t), as |-> as, cd |-> cd]
    ELSE IF AlreadyActive(as, k, t)
    THEN [ok |-> FALSE, reason |-> "active", n |-> PyInt(as[k] - t), as |-> as, cd |-> cd]
    ELSE LET as1 == Del(as, k)
             as2 == CleanupExpired(as1, now)
             cd2 == CleanupExpired(cd, now)
         IN  IF CapacityReached(as2, max)
             THEN [ok |-> FALSE, reason |-> "capacity", n |-> 0, as |-> as2, cd |-> cd2]
             ELSE [ok |-> TRUE, reason |-> "activated", n |-> d,
                   as |-> Put(as2, k, EndTime(t, d)),
                   cd |-> Put(cd2, k, CooldownEnd(t, c))]

\* is_state_active with > for >= in the expiry test
IsActiveOutcome_LateExpiry(as, k, t) ==
    IF k \notin DOMAIN as THEN [ok |-> FALSE, as |-> as]
    ELSE IF t > as[k] THEN [ok |-> FALSE, as |-> Del(as, k)]
    ELSE [ok |-> TRUE, as |-> as]

\* The locked section of is_state_active: the result and active_states after it.
IsActiveOutcome(as, k, t) ==
    IF k \notin DOMAIN as THEN [ok |-> FALSE, as |-> as]
    ELSE IF t >= as[k] THEN [ok |-> FALSE, as |-> Del(as, k)]
    ELSE [ok |-> TRUE, as |-> as]

\* a get_remaining_time without the max(0, ...)
RemainingTime_Unclamped(as, k, t) ==
    IF k \notin DOMAIN as THEN 0 ELSE PyInt(as[k] - t)

\* The locked section of get_remaining_time: max(0, int(remaining))
RemainingTime(as, k, t) ==
    IF k \notin DOMAIN as THEN 0 ELSE Max0(PyInt(as[k] - t))

\* a deactivate_state that clears the cooldown too
DeactivateOutcome_ClearsCooldown(as, cd, k) ==
    IF k \in DOMAIN as THEN [ok |-> TRUE, as |-> Del(as, k), cd |-> Del(cd, k)]
    ELSE [ok |-> FALSE, as |-> as, cd |-> cd]

\* The locked section of deactivate_state: the result and the two maps after it.
DeactivateOutcome(as, cd, k) ==
    IF k \in DOMAIN as THEN [ok |-> TRUE, as |-> Del(as, k), cd |-> cd]
    ELSE [ok |-> FALSE, as |-> as, cd |-> cd]

\* The result of get_active_states_info, as being the map after the cleanup and
\* t the current_time read before the lock: key -> remaining_seconds
ActiveStatesInfo(as, t) == [k \in DOMAIN as |-> PyInt(as[k] - t)]

\* ------------------------------------------------------------------ threads
\* A thread is idle, or inside a StateManager method between its clock read
\* (t) and its locked section.  Which method and which key is fixed when the
\* thread enters, but nothing reads either before the locked section, so the
\* model draws them there.
IdleThread == [pc |-> "idle", t |-> 0]

InFlight(i) == th[i].pc = "locked"

Registry == <<active_states, cooldowns, max_concurrent_states>>

\* the ConfigurationManager's lock and file state, and the threads that use them
ConfigSide == <<config_lock, config_loads, admin>>

\* What the locked section of each method does and returns, were thread i (in
\* flight, its clock read being th[i].t) to run it now for session s.  The
\* duration and the cooldown of an activation are those the message handler
\* reads from the configuration (main.py:536-543).
ActivateReturns(i, s) ==
    ActivateOutcome(active_states, cooldowns, max_concurrent_states, KeyOf(s), th[i].t,
                    config.state_duration_seconds, config.cooldown_seconds, clock)

IsActiveReturns(i, s) == IsActiveOutcome(active_states, KeyOf(s), th[i].t)

RemainingReturns(i, s) == RemainingTime(active_states, KeyOf(s), th[i].t)

DeactivateReturns(s) == DeactivateOutcome(active_states, cooldowns, KeyOf(s))

\* history: key k was activated at current_time t for d and c seconds
Activated(hist, k, t, d, c) == Put(hist, k, [t |-> t, d |-> d, c |-> c, deact |-> FALSE])

\* history: key k's ActiveState was removed by deactivate_state
Deactivated(hist, k) == IF k \in DOMAIN hist THEN [hist EXCEPT ![k].deact = TRUE] ELSE hist

\* time passes
Tick ==
    /\ clock < MaxClock
    /\ clock' = clock + 1
    /\ UNCHANGED <<Registry, config, th, handler, lastAct, burst, ConfigSide, llm>>

\* the entry of activate_state, is_state_active, get_remaining_time or
\* get_active_states_info: current_time = time.time(), before the lock
ReadClock(i) ==
    /\ th[i].pc = "idle"
    /\ th' = [th EXCEPT ![i] = [pc |-> "locked", t |-> clock]]
    /\ UNCHANGED <<Registry, clock, config, handler, lastAct, burst, ConfigSide, llm>>

\* activate_state's locked section run by thread i: the registry after it
ActivateSection(i, s) ==
    /\ InFlight(i)
    /\ LET o == ActivateReturns(i, s)
       IN  /\ active_states' = o.as
           /\ cooldowns' = o.cd
           /\ lastAct' = IF o.ok
                         THEN Activated(lastAct, KeyOf(s), th[i].t,
                                        config.state_duration_seconds, config.cooldown_seconds)
                         ELSE lastAct
    /\ th' = [th EXCEPT ![i] = IdleThread]
    /\ UNCHANGED <<max_concurrent_states, clock, config, handler, ConfigSide, llm>>

\* activate_state(session_id, platform, duration, cooldown), the locked section
ActivateLocked(i, s) ==
    /\ ActivateSection(i, s)
    /\ UNCHANGED burst

\* is_state_active(session_id, platform), the locked section
IsActiveLocked(i, s) ==
    /\ InFlight(i)
    /\ active_states' = IsActiveReturns(i, s).as
    /\ th' = [th EXCEPT ![i] = IdleThread]
    /\ UNCHANGED <<cooldowns, max_concurrent_states, clock, config, handler, lastAct, burst,
                   ConfigSide, llm>>

\* get_remaining_time(session_id, platform), the locked section: it returns
\* RemainingReturns(i, s) and changes nothing
RemainingLocked(i) ==
    /\ InFlight(i)
    /\ th' = [th EXCEPT ![i] = IdleThread]
    /\ UNCHANGED <<Registry, clock, config, handler, lastAct, burst, ConfigSide, llm>>

\* deactivate_state(session_id, platform): no clock read, one locked section
Deactivate(i, s) ==
    /\ th[i].pc = "idle"
    /\ LET o == DeactivateReturns(s)
       IN  /\ active_states' = o.as
           /\ cooldowns' = o.cd
           /\ lastAct' = IF o.ok THEN Deactivated(lastAct, KeyOf(s)) ELSE lastAct
    /\ UNCHANGED <<max_concurrent_states, clock, config, th, handler, burst, ConfigSide, llm>>

\* get_active_states_info(), the locked section: _cleanup_expired_states, then
\* the result ActiveStatesInfo(active_states', th[i].t)
InfoLocked(i) ==
    /\ InFlight(i)
    /\ active_states' = CleanupExpired(active_states, clock)
    /\ cooldowns' = CleanupExpired(cooldowns, clock)
    /\ th' = [th EXCEPT ![i] = IdleThread]
    /\ UNCHANGED <<max_concurrent_states, clock, config, handler, lastAct, burst,
                   ConfigSide, llm>>

\* ------------------------------------------------------- trigger gate
\* str.lower(), on the letters the model's texts use
Lower(ch) ==
    CASE ch = "T" -> "t"
      [] ch = "D" -> "d"
      [] ch = "X" -> "x"
      [] ch = "C" -> "c"
      [] ch = "Q" -> "q"
      [] OTHER -> ch

LowerStr(str) == [n \in 1..Len(str) |-> Lower(str[n])]

\* \s of the regular expressions, and what str.strip() removes
IsSpace(ch) == ch = " "

RECURSIVE LStrip(_)
LStrip(str) == IF str # Empty /\ IsSpace(Head(str)) THEN LStrip(Tail(str)) ELSE str

RECURSIVE RStrip(_)
RStrip(str) ==
    IF str # Empty /\ IsSpace(str[Len(str)]) THEN RStrip(SubSeq(str, 1, Len(str) - 1)) ELSE str

\* str.strip()
Strip(str) == RStrip(LStrip(str))

\* needle in hay
Contains(hay, needle) ==
    \E n \in 0..(Len(hay) - Len(needle)) : SubSeq(hay, n + 1, n + Len(needle)) = needle

\* hay.startswith(prefix)
StartsWith(hay, prefix) ==
    Len(hay) >= Len(prefix) /\ SubSeq(hay, 1, Len(prefix)) = prefix

\* the rest of str after its leading run of non-whitespace: what [^\s]* leaves
RECURSIVE DropNonSpace(_)
DropNonSpace(str) ==
    IF str # Empty /\ ~IsSpace(Head(str)) THEN DropNonSpace(Tail(str)) ELSE str

\* re.sub(r"@[^\s]*", "", message)
RECURSIVE RemoveMentions(_)
RemoveMentions(str) ==
    IF str = Empty THEN Empty
    ELSE IF Head(str) = "@" THEN RemoveMentions(DropNonSpace(Tail(str)))
    ELSE <<Head(str)>> \o RemoveMentions(Tail(str))

CQPrefix == <<"[", "C", "Q", ":", "a", "t">>

\* the rest of str after its first "]", str having one
RECURSIVE AfterBracket(_)
AfterBracket(str) == IF Head(str) = "]" THEN Tail(str) ELSE AfterBracket(Tail(str))

\* re.sub(r"\[CQ:at[^\]]*\]", "", cleaned)
RECURSIVE RemoveCQ(_)
RemoveCQ(str) ==
    IF str = Empty THEN Empty
    ELSE IF StartsWith(str, CQPrefix)
            /\ \E n \in (Len(CQPrefix) + 1)..Len(str) : str[n] = "]"
         THEN RemoveCQ(AfterBracket(SubSeq(str, Len(CQPrefix) + 1, Len(str))))
    ELSE <<Head(str)>> \o RemoveCQ(Tail(str))

\* Main._clean_message_content
clean_message_content(message) == Strip(RemoveCQ(RemoveMentions(message)))

\* a keyword test that compares case-sensitively
KeywordMatches_CaseSensitive(keyword, cleaned) == Contains(cleaned, keyword)

\* if keyword.lower() in cleaned_message.lower()
KeywordMatches(keyword, cleaned) == Contains(LowerStr(cleaned), LowerStr(keyword))

\* for keyword in trigger_keywords: the index of the first that matches, or 0
FirstMatch(keywords, cleaned) ==
    LET hits == { n \in 1..Len(keywords) : KeywordMatches(keywords[n], cleaned) }
    IN  IF hits = {} THEN 0 ELSE CHOOSE n \in hits : \A m \in hits : n <= m

\* x in list
InList(x, list) == \E n \in 1..Len(list) : list[n] = x

\* a permission check that lets everyone through
check_user_permission_Open(user_id, cfg) == TRUE

\* Main._check_user_permission
check_user_permission(user_id, cfg) ==
    IF cfg.admin_only_mode THEN TRUE
    ELSE IF cfg.authorized_users = <<>> THEN TRUE
    ELSE InList(user_id, cfg.authorized_users)

\* getattr(event, "sender_id", "") or getattr(event, "user_id", "")
UserOf(e) == IF e.sender_id # Empty THEN e.sender_id ELSE e.user_id

Verdict(ok, reason, keyword) == [ok |-> ok, reason |-> reason, keyword |-> keyword]

\* a trigger gate without the is_at test
should_trigger_NoAtCheck(e, cfg) ==
    IF ~cfg.enabled THEN Verdict(FALSE, "disabled", <<>>)
    ELSE IF ~check_user_permission(UserOf(e), cfg) THEN Verdict(FALSE, "no_permission", <<>>)
    ELSE LET content == Strip(e.message_str) IN
         IF content = <<>> THEN Verdict(FALSE, "empty", <<>>)
         ELSE LET n == FirstMatch(cfg.trigger_keywords, clean_message_content(content)) IN
              IF n # 0 THEN Verdict(TRUE, "matched", cfg.trigger_keywords[n])
              ELSE Verdict(FALSE, "no_keyword", <<>>)

\* Main.should_trigger, the plugin being loaded: (bool, reason), and the keyword
\* the reason names
should_trigger(e, cfg) ==
    IF ~cfg.enabled THEN Verdict(FALSE, "disabled", Empty)
    ELSE IF ~e.is_at THEN Verdict(FALSE, "not_at", Empty)
    ELSE IF ~check_user_permission(UserOf(e), cfg) THEN Verdict(FALSE, "no_permission", Empty)
    ELSE LET content == Strip(e.message_str) IN
         IF content = Empty THEN Verdict(FALSE, "empty", Empty)
         ELSE LET n == FirstMatch(cfg.trigger_keywords, clean_message_content(content)) IN
              IF n # 0 THEN Verdict(TRUE, "matched", cfg.trigger_keywords[n])
              ELSE Verdict(FALSE, "no_keyword", Empty)

\* Main._generate_failure_response, by the reason activate_state's message gives
generate_failure_response(reason) ==
    CASE reason = "cooldown" -> "reply_cooldown"
      [] reason = "active" -> "reply_active"
      [] reason = "capacity" -> "reply_capacity"
      [] OTHER -> "reply_other"

\* --------------------------------------------------------- configuration
\* ConfigurationManager.default_config, with the fields the model varies
DefaultKeywords == << <<"t", "d">> >>

DefaultItemName == "item"

DefaultSensitivity == 50

Config(d, c, max) ==
    [ enabled |-> TRUE,
      trigger_keywords |-> DefaultKeywords,
      interactive_item_name |-> DefaultItemName,
      state_duration_seconds |-> d,
      sensitivity_level |-> DefaultSensitivity,
      cooldown_seconds |-> c,
      max_concurrent_states |-> max,
      authorized_users |-> <<>>,
      admin_only_mode |-> FALSE ]

DefaultDuration == 180

DefaultCooldown == 30

DefaultMaxConcurrent == 10

\* self.default_config: it has no system_prompt_template
default_config == Config(DefaultDuration, DefaultCooldown, DefaultMaxConcurrent)

\* the template get_config puts in when the file has none (main.py:165-191), as
\* the text around its two placeholders
PresetTemplate == <<"[", "{item_name}", "|", "{sensitivity}", "]">>

\* key in config
HasKey(cfg, key) == key \in DOMAIN cfg

\* config[key] = v
WithKey(cfg, key, v) == [x \in (DOMAIN cfg) \cup {key} |-> IF x = key THEN v ELSE cfg[x]]

\* ConfigurationManager.get_config, file being the content of the YAML file and
\* loads whether _load_config can parse it: the defaults if it cannot
get_config(file, loads) ==
    IF ~loads THEN default_config
    ELSE IF HasKey(file, "system_prompt_template") THEN file
    ELSE WithKey(file, "system_prompt_template", PresetTemplate)

\* what the program reads as its configuration now
CurrentConfig == get_config(config, config_loads)

\* ------------------------------------------------------- message handler
NoSession == [platform |-> Empty, session_id |-> Empty]

NoEvent == [is_at |-> FALSE, sender_id |-> Empty, user_id |-> Empty, message_str |-> Empty,
            session |-> NoSession]

NoTrigger == Verdict(FALSE, "", Empty)

\* Main.immersive_control_handler: idle, or having decided to trigger, or inside
\* activate_state between the clock read (t) and the locked section.  ev is the
\* event of the message handled last, trig what should_trigger returned for it,
\* reply the results the handler yielded for it, in order; config is the
\* configuration it fetched for activate_state.
IdleHandler == [pc |-> "idle", ev |-> NoEvent, trig |-> NoTrigger, t |-> 0,
                config |-> EmptyDict, reply |-> <<>>]

\* the messages, senders and events the handler is given
Messages ==
    { <<"t", "d">>,
      <<"T", "D">>,
      <<"x", "t", "D", "x">>,
      <<"x">>,
      Empty,
      <<" ">>,
      <<"@", "t", "d">>,
      <<"@", "x", " ", "t", "d">>,
      <<"t", "[", "C", "Q", ":", "a", "t", ",", "1", "]", "d">> }

Senders ==
    { [sender_id |-> <<"u", "1">>, user_id |-> Empty],
      [sender_id |-> <<"u", "2">>, user_id |-> Empty],
      [sender_id |-> Empty, user_id |-> <<"u", "1">>] }

EventSessions ==
    { [platform |-> Empty,   session_id |-> <<"a">>],
      [platform |-> <<"p">>, session_id |-> <<"a">>],
      NoSession }

Event(at, u, m, s) ==
    [is_at |-> at, sender_id |-> u.sender_id, user_id |-> u.user_id,
     message_str |-> m, session |-> s]

\* every message from one sender in one session, and two of the messages from
\* every sender in every session, each addressed to the bot or not
Events ==
    { Event(at, u, m, s) :
      at \in BOOLEAN,
      u \in { x \in Senders : x.sender_id = <<"u", "1">> },
      m \in Messages,
      s \in { x \in EventSessions : x.session_id # Empty /\ x.platform = Empty } }
    \cup
    { Event(at, u, m, s) :
      at \in BOOLEAN, u \in Senders, m \in { <<"t", "d">>, <<"x">> }, s \in EventSessions }

\* the handler up to "if not should_trigger: return" (main.py:510-520)
HandlerReceive(e) ==
    /\ handler.pc = "idle"
    /\ LET v == should_trigger(e, CurrentConfig)
       IN  handler' = [pc |-> IF v.ok THEN "triggered" ELSE "idle",
                       ev |-> e, trig |-> v, t |-> 0, config |-> EmptyDict,
                       reply |-> <<>>]
    /\ UNCHANGED <<Registry, clock, config, th, lastAct, burst, ConfigSide, llm>>

\* the handler from there to activate_state's clock read (main.py:525-543,
\* 233-234): it returns if the event has no session id, else fetches the
\* configuration and calls activate_state with its duration and cooldown
HandlerEnter ==
    /\ handler.pc = "triggered"
    /\ handler' = IF handler.ev.session.session_id = Empty
                  THEN [handler EXCEPT !.pc = "idle"]
                  ELSE [handler EXCEPT !.pc = "locked", !.t = clock,
                                       !.config = CurrentConfig]
    /\ UNCHANGED <<Registry, clock, config, th, lastAct, burst, ConfigSide, llm>>

\* what activate_state's locked section does and returns for the handler
HandlerActivateReturns ==
    ActivateOutcome(active_states, cooldowns, max_concurrent_states,
                    KeyOf(handler.ev.session), handler.t,
                    handler.config.state_duration_seconds, handler.config.cooldown_seconds,
                    clock)

\* what the handler yields once activate_state returned o (main.py:545-553):
\* nothing on success, the failure response otherwise
HandlerReply_Always(o) == << generate_failure_response(o.reason) >>

HandlerReply(o) == IF o.ok THEN <<>> ELSE << generate_failure_response(o.reason) >>

\* activate_state's locked section, and the handler's reply (main.py:236-266,
\* 545-553)
HandlerActivate ==
    /\ handler.pc = "locked"
    /\ LET o == HandlerActivateReturns
       IN  /\ active_states' = o.as
           /\ cooldowns' = o.cd
           /\ lastAct' = IF o.ok
                         THEN Activated(lastAct, KeyOf(handler.ev.session), handler.t,
                                        handler.config.state_duration_seconds,
                                        handler.config.cooldown_seconds)
                         ELSE lastAct
           /\ handler' = [handler EXCEPT !.pc = "idle", !.t = 0, !.config = EmptyDict,
                              !.reply = handler.reply \o HandlerReply(o)]
    /\ UNCHANGED <<max_concurrent_states, clock, config, th, burst, ConfigSide, llm>>

\* ------------------------------------------------- threads outside StateManager
\* before_llm_request: idle, or inside is_state_active between the clock read
\* (t) and the locked check, for the request of conversation session whose
\* system prompt was prev and is system_prompt; active is what is_state_active
\* returned for the request handled last.
IdleLlm == [pc |-> "idle", t |-> 0, session |-> NoSession, prev |-> <<>>,
            system_prompt |-> <<>>, active |-> FALSE]

NumAdmins == 2

AdminThreads == 1..NumAdmins

\* An admin thread is idle, or in a command op (with argument arg) holding the
\* configuration local it read and changed, about to save it; reply is what
\* the command answered last.  In imm_clear, t is the clock read of
\* get_active_states_info, local the snapshot it returned and arg the keys of
\* the snapshot still to be deactivated.
IdleAdmin == [pc |-> "idle", op |-> "", arg |-> <<>>, local |-> EmptyDict, reply |-> "",
              t |-> 0]

\* ------------------------------------------------------------- startup
\* Main.__init__: StateManager(config.get("max_concurrent_states", 10)), both maps empty
InitWith(cfg) ==
    /\ config = cfg
    /\ max_concurrent_states = cfg.max_concurrent_states
    /\ active_states = EmptyDict
    /\ cooldowns = EmptyDict
    /\ clock = 0
    /\ th = [i \in Threads |-> IdleThread]
    /\ handler = IdleHandler
    /\ lastAct = EmptyDict
    /\ burst = EmptyDict
    /\ config_lock = 0
    /\ config_loads = TRUE
    /\ admin = [a \in AdminThreads |-> IdleAdmin]
    /\ llm = IdleLlm

Init ==
    \E d \in 1..MaxDuration, c \in 0..MaxCooldown, max \in 1..MaxCap :
        InitWith(Config(d, c, max))

\* the configurations of the trigger gate: who may trigger, and with what words
HandlerConfigs ==
    { [Config(2, 1, 1) EXCEPT !.enabled = en, !.admin_only_mode = adm,
                              !.authorized_users = users, !.trigger_keywords = kws] :
      en \in BOOLEAN, adm \in BOOLEAN,
      users \in { <<>>, << <<"u", "1">> >> },
      kws \in { << <<"t", "d">> >>, << <<"D", "x">>, <<"t", "d">> >> } }

InitHandler == \E cfg \in HandlerConfigs : InitWith(cfg)

NextHandler ==
    \/ Tick
    \/ \E e \in Events : HandlerReceive(e)
    \/ HandlerEnter
    \/ HandlerActivate

SpecHandler == InitHandler /\ [][NextHandler]_vars

\* ------------------------------------------------- admin threads
\* the command answers reply and is over
AdminAnswer(a, op, arg, reply) ==
    admin' = [admin EXCEPT ![a] = [pc |-> "idle", op |-> "", arg |-> <<>>,
                                   local |-> EmptyDict, reply |-> reply, t |-> 0]]

\* the command goes on to _save_config(local)
AdminSave(a, op, arg, local) ==
    admin' = [admin EXCEPT ![a] = [pc |-> "save", op |-> op, arg |-> arg,
                                   local |-> local, reply |-> "", t |-> 0]]

\* ------------------------------------------------- saving the configuration
\* ConfigurationManager._save_config, entered: the lock is taken and
\* open(file, "w") truncates the file, which no longer parses as a dict until
\* the dump is written
SaveOpen(a) ==
    /\ admin[a].pc = "save"
    /\ config_lock = 0
    /\ config_lock' = a
    /\ config_loads' = FALSE
    /\ admin' = [admin EXCEPT ![a].pc = "writing"]
    /\ UNCHANGED <<Registry, clock, config, th, handler, lastAct, burst, llm>>

\* _save_config, left: the dump is written, the lock released, and the caller
\* answers that the configuration is saved
SaveClose(a) ==
    /\ admin[a].pc = "writing"
    /\ config' = admin[a].local
    /\ config_loads' = TRUE
    /\ config_lock' = 0
    /\ AdminAnswer(a, admin[a].op, admin[a].arg, "saved")
    /\ UNCHANGED <<Registry, clock, th, handler, lastAct, burst, llm>>

\* ------------------------------------------------------- admin commands
\* what an admin command leaves alone until it saves
AdminFrame == <<Registry, clock, config, th, handler, lastAct, burst, config_lock,
                config_loads, llm>>

\* the user ids and the sensitivity texts the commands are given; <<>> is a
\* command without its argument (len(message_parts) < 2)
UserArgs == { <<>>, <<"u", "1">>, <<"u", "2">> }

SensitivityArgs == { <<>>, <<"1", "0", "0">>, <<"1", "0", "1">>, <<"-", "1">>, <<"x">> }

Digits == <<"0", "1", "2", "3", "4", "5", "6", "7", "8", "9">>

IsDigit(ch) == \E n \in 1..Len(Digits) : Digits[n] = ch

DigitValue(ch) == (CHOOSE n \in 1..Len(Digits) : Digits[n] = ch) - 1

\* the value of a non-empty run of decimal digits
RECURSIVE DecimalValue(_)
DecimalValue(str) ==
    IF Len(str) = 1 THEN DigitValue(str[1])
    ELSE DecimalValue(SubSeq(str, 1, Len(str) - 1)) * 10 + DigitValue(str[Len(str)])

\* whether int(text) returns (else it raises ValueError): an optional sign and digits
IsInt(text) ==
    LET body == IF text # <<>> /\ Head(text) \in {"-", "+"} THEN Tail(text) ELSE text
    IN  body # <<>> /\ \A n \in 1..Len(body) : IsDigit(body[n])

\* int(text), text being one it accepts
IntOf(text) ==
    IF Head(text) = "-" THEN 0 - DecimalValue(Tail(text))
    ELSE IF Head(text) = "+" THEN DecimalValue(Tail(text))
    ELSE DecimalValue(text)

\* sensitivity < 0 or sensitivity > 100
SensitivityMin == 0

SensitivityMax == 100

OutOfRange_NoUpperBound(sensitivity) == sensitivity < SensitivityMin

OutOfRange(sensitivity) == sensitivity < SensitivityMin \/ sensitivity > SensitivityMax

\* list.remove(x), x being in the list: without its first occurrence
RemoveFirst(list, x) ==
    LET n == CHOOSE m \in 1..Len(list) : list[m] = x /\ \A j \in 1..(m - 1) : list[j] # x
    IN  SubSeq(list, 1, n - 1) \o SubSeq(list, n + 1, Len(list))

\* Main.add_user_command, up to _save_config
add_user_command(a, user_id) ==
    /\ admin[a].pc = "idle"
    /\ LET cfg == CurrentConfig IN
       IF user_id = <<>> THEN AdminAnswer(a, "adduser", user_id, "usage")
       ELSE IF InList(user_id, cfg.authorized_users)
       THEN AdminAnswer(a, "adduser", user_id, "already_listed")
       ELSE AdminSave(a, "adduser", user_id,
                      [cfg EXCEPT !.authorized_users = Append(cfg.authorized_users, user_id)])
    /\ UNCHANGED AdminFrame

\* Main.remove_user_command, up to _save_config
remove_user_command(a, user_id) ==
    /\ admin[a].pc = "idle"
    /\ LET cfg == CurrentConfig IN
       IF user_id = <<>> THEN AdminAnswer(a, "deluser", user_id, "usage")
       ELSE IF ~InList(user_id, cfg.authorized_users)
       THEN AdminAnswer(a, "deluser", user_id, "not_listed")
       ELSE AdminSave(a, "deluser", user_id,
                      [cfg EXCEPT !.authorized_users = RemoveFirst(cfg.authorized_users, user_id)])
    /\ UNCHANGED AdminFrame

\* Main.set_sensitivity_command, up to _save_config
set_sensitivity_command(a, text) ==
    /\ admin[a].pc = "idle"
    /\ IF text = <<>> THEN AdminAnswer(a, "sensitivity", text, "usage")
       ELSE IF ~IsInt(text) THEN AdminAnswer(a, "sensitivity", text, "not_a_number")
       ELSE IF OutOfRange(IntOf(text)) THEN AdminAnswer(a, "sensitivity", text, "out_of_range")
       ELSE AdminSave(a, "sensitivity", text,
                      [CurrentConfig EXCEPT !.sensitivity_level = IntOf(text)])
    /\ UNCHANGED AdminFrame

\* Main.toggle_command, up to _save_config
toggle_command(a) ==
    /\ admin[a].pc = "idle"
    /\ AdminSave(a, "toggle", <<>>, [CurrentConfig EXCEPT !.enabled = ~CurrentConfig.enabled])
    /\ UNCHANGED AdminFrame

\* Main.toggle_admin_mode_command, up to _save_config
toggle_admin_mode_command(a) ==
    /\ admin[a].pc = "idle"
    /\ AdminSave(a, "adminmode", <<>>,
                 [CurrentConfig EXCEPT !.admin_only_mode = ~CurrentConfig.admin_only_mode])
    /\ UNCHANGED AdminFrame

\* config.update(updates)
Updated(cfg, updates) ==
    [x \in (DOMAIN cfg) \cup (DOMAIN updates) |->
        IF x \in DOMAIN updates THEN updates[x] ELSE cfg[x]]

\* the updates set_config is given by the WebUI
ConfigUpdates == { [max_concurrent_states |-> 1], [sensitivity_level |-> 80] }

\* Main.set_config and ConfigurationManager.update_config, up to _save_config:
\* the lock is taken, the configuration read and updated, and _save_config
\* called with the lock still held
set_config(a, updates) ==
    /\ admin[a].pc = "idle"
    /\ config_lock = 0
    /\ config_lock' = a
    /\ AdminSave(a, "set_config", updates, Updated(CurrentConfig, updates))
    /\ UNCHANGED <<Registry, clock, config, th, handler, lastAct, burst, config_loads, llm>>

\* the admin commands and the WebUI updates, the saves included; the two
\* toggles are given by the first admin only
NextConfig ==
    \/ \E a \in AdminThreads, u \in UserArgs : add_user_command(a, u)
    \/ \E a \in AdminThreads, u \in UserArgs : remove_user_command(a, u)
    \/ \E a \in AdminThreads, x \in SensitivityArgs : set_sensitivity_command(a, x)
    \/ \E a \in AdminThreads, u \in ConfigUpdates : set_config(a, u)
    \/ toggle_command(1)
    \/ toggle_admin_mode_command(1)
    \/ \E a \in AdminThreads : SaveOpen(a)
    \/ \E a \in AdminThreads : SaveClose(a)

\* the file ensure_config_exists wrote, with short times
InitConfig == InitWith(Config(1, 1, MaxCap))

SpecConfig == InitConfig /\ [][NextConfig]_vars

\* ------------------------------------------------------- prompt injection
\* prompt_template.format(item_name=item_name, sensitivity=sensitivity)
Render(template, item_name, sensitivity) ==
    [n \in 1..Len(template) |->
        IF template[n] = "{item_name}" THEN item_name
        ELSE IF template[n] = "{sensitivity}" THEN ToString(sensitivity)
        ELSE template[n]]

\* before_llm_request once is_state_active returned True: the system prompt it
\* leaves, cfg being what get_config returned and prev the system prompt before
InjectedPrompt(cfg, prev) ==
    LET template == IF HasKey(cfg, "system_prompt_template")
                    THEN cfg.system_prompt_template ELSE <<>>
    IN  IF template = <<>> THEN prev
        ELSE LET injected == Render(template, cfg.interactive_item_name, cfg.sensitivity_level)
             IN  IF prev # <<>> THEN injected \o <<"\n\n">> \o prev ELSE injected

\* the system prompts a provider request comes with: none, or one
SystemPrompts == { <<>>, <<"sys">> }

\* a provider request of conversation s arrives: before_llm_request enters
\* is_state_active and reads the clock (main.py:471-476, 270-271)
LlmRequest(s, prompt) ==
    /\ llm.pc = "idle"
    /\ llm' = [pc |-> "locked", t |-> clock, session |-> s, prev |-> prompt,
               system_prompt |-> prompt, active |-> FALSE]
    /\ UNCHANGED <<Registry, clock, config, th, handler, lastAct, burst, ConfigSide>>

\* is_state_active's locked check, then the rest of before_llm_request
\* (main.py:273-283, 476-498)
LlmHook ==
    /\ llm.pc = "locked"
    /\ LET o == IsActiveOutcome(active_states, KeyOf(llm.session), llm.t)
       IN  /\ active_states' = o.as
           /\ llm' = [llm EXCEPT !.pc = "idle", !.t = 0, !.active = o.ok,
                          !.system_prompt = IF o.ok THEN InjectedPrompt(CurrentConfig, llm.prev)
                                            ELSE llm.prev]
    /\ UNCHANGED <<cooldowns, max_concurrent_states, clock, config, th, handler, lastAct,
                   burst, ConfigSide>>

\* the contents the configuration file is given from outside the program
FileContents == { Config(1, 1, MaxCap), Config(2, 0, 1) }

\* the configuration file is rewritten from outside the program (edited by
\* hand) to a content that _load_config parses as a dict
EditFile(cfg) ==
    /\ config_lock = 0
    /\ config' = cfg
    /\ config_loads' = TRUE
    /\ UNCHANGED <<Registry, clock, th, handler, lastAct, burst, config_lock, admin, llm>>

\* the configuration file is deleted or damaged: _load_config returns None
DamageFile ==
    /\ config_lock = 0
    /\ config' = EmptyDict
    /\ config_loads' = FALSE
    /\ UNCHANGED <<Registry, clock, th, handler, lastAct, burst, config_lock, admin, llm>>

\* the messages that activate the conversations whose requests are watched:
\* addressed keyword messages
LlmEvents ==
    { e \in Events : e.is_at /\ e.message_str = <<"t", "d">>
                     /\ e.sender_id = <<"u", "1">> /\ e.session.session_id # Empty }

\* messages, provider requests, and the configuration file changing under them
NextLlm ==
    \/ Tick
    \/ \E e \in LlmEvents : HandlerReceive(e)
    \/ HandlerEnter
    \/ HandlerActivate
    \/ \E s \in Sessions, prompt \in SystemPrompts : LlmRequest(s, prompt)
    \/ LlmHook
    \/ EditFile(Config(1, 1, MaxCap))
    \/ DamageFile

SpecLlm == InitConfig /\ [][NextLlm]_vars

\* messages, and the configuration file changing under them
NextReload ==
    \/ Tick
    \/ \E e \in LlmEvents : HandlerReceive(e)
    \/ HandlerEnter
    \/ HandlerActivate
    \/ \E cfg \in FileContents : EditFile(cfg)

SpecReload == InitConfig /\ [][NextReload]_vars

Next ==
    \/ Tick
    \/ \E i \in Threads : ReadClock(i)
    \/ \E i \in Threads, s \in Sessions : ActivateLocked(i, s)
    \/ \E i \in Threads, s \in Sessions : IsActiveLocked(i, s)
    \/ \E i \in Threads : RemainingLocked(i)
    \/ \E i \in Threads, s \in Sessions : Deactivate(i, s)
    \/ \E i \in Threads : InfoLocked(i)

Spec == Init /\ [][Next]_vars

\* --------------------------------------------------------------- imm_clear
\* state_key.split("_", 1): the part before the first "_" and the part after
\* it, or the key alone if it has no "_"
RECURSIVE FirstUnderscore(_, _)
FirstUnderscore(str, n) ==
    IF n > Len(str) THEN 0
    ELSE IF str[n] = "_" THEN n
    ELSE FirstUnderscore(str, n + 1)

SplitKey(state_key) ==
    LET n == FirstUnderscore(state_key, 1)
    IN  IF n = 0 THEN << state_key >>
        ELSE << SubSeq(state_key, 1, n - 1), SubSeq(state_key, n + 1, Len(state_key)) >>

\* the key that the loop of clear_states_command deactivates for state_key
\* (main.py:646-652)
ClearedKey(state_key) ==
    LET session_parts == SplitKey(state_key)
    IN  IF Len(session_parts) = 2
        THEN generate_state_key(session_parts[2], session_parts[1])
        ELSE generate_state_key(state_key, Empty)

\* the conversations of the bulk clear: one of them has a session id that
\* begins with the separator
ClearSessions ==
    { [platform |-> Empty,   session_id |-> <<"a">>],
      [platform |-> <<"p">>, session_id |-> <<"a">>],
      [platform |-> Empty,   session_id |-> <<"_", "a">>] }

\* clear_states_command enters get_active_states_info, which reads the clock
ClearStart(a) ==
    /\ admin[a].pc = "idle"
    /\ admin' = [admin EXCEPT ![a] = [pc |-> "snapshot", op |-> "clear", arg |-> {},
                                      local |-> EmptyDict, reply |-> "", t |-> clock]]
    /\ UNCHANGED <<Registry, clock, config, th, handler, lastAct, burst, config_lock,
                   config_loads, llm>>

\* get_active_states_info's locked section, and count = len(active_states)
ClearSnapshot(a) ==
    /\ admin[a].pc = "snapshot"
    /\ active_states' = CleanupExpired(active_states, clock)
    /\ cooldowns' = CleanupExpired(cooldowns, clock)
    /\ admin' = [admin EXCEPT ![a].pc = "clearing",
                              ![a].local = ActiveStatesInfo(active_states', admin[a].t),
                              ![a].arg = DOMAIN active_states']
    /\ UNCHANGED <<max_concurrent_states, clock, config, th, handler, lastAct, burst,
                   config_lock, config_loads, llm>>

\* one turn of the loop over the snapshot's keys (taken here in any order):
\* deactivate_state with the parts of the split key
ClearOne(a, state_key) ==
    /\ admin[a].pc = "clearing"
    /\ state_key \in admin[a].arg
    /\ LET o == DeactivateOutcome(active_states, cooldowns, ClearedKey(state_key))
       IN  /\ active_states' = o.as
           /\ cooldowns' = o.cd
           /\ lastAct' = IF o.ok THEN Deactivated(lastAct, ClearedKey(state_key)) ELSE lastAct
    /\ admin' = [admin EXCEPT ![a].arg = admin[a].arg \ {state_key}]
    /\ UNCHANGED <<max_concurrent_states, clock, config, th, handler, burst, config_lock,
                   config_loads, llm>>

\* the loop is over: the command answers with count, the size of the snapshot
ClearDone(a) ==
    /\ admin[a].pc = "clearing"
    /\ admin[a].arg = {}
    /\ admin' = [admin EXCEPT ![a].pc = "idle", ![a].reply = "cleared"]
    /\ UNCHANGED <<Registry, clock, config, th, handler, lastAct, burst, config_lock,
                   config_loads, llm>>

\* activations by one StateManager thread, and one admin clearing
NextClear ==
    \/ Tick
    \/ ReadClock(1)
    \/ \E s \in ClearSessions : ActivateLocked(1, s)
    \/ ClearStart(1)
    \/ ClearSnapshot(1)
    \/ \E k \in { KeyOf(s) : s \in ClearSessions } : ClearOne(1, k)
    \/ ClearDone(1)

InitClear == InitWith(Config(MaxDuration, 1, MaxCap))

SpecClear == InitClear /\ [][NextClear]_vars

\* ---------------------------------------------------------------- imm_toggle
\* the conversation that is watched while the plugin is toggled, and the
\* messages that activate it
ToggleSessions == { s \in Sessions : KeyOf(s) = <<"a">> }

ToggleEvents == { e \in LlmEvents : e.session \in ToggleSessions }

\* messages and provider requests while the first admin toggles the plugin
NextToggle ==
    \/ Tick
    \/ \E e \in ToggleEvents : HandlerReceive(e)
    \/ HandlerEnter
    \/ HandlerActivate
    \/ \E s \in ToggleSessions, prompt \in SystemPrompts : LlmRequest(s, prompt)
    \/ LlmHook
    \/ toggle_command(1)
    \/ SaveOpen(1)
    \/ SaveClose(1)

SpecToggle == InitConfig /\ [][NextToggle]_vars

\* ------------------------------------------------- calls and messages together
\* the messages of the conversations that share the registry with the direct
\* calls: addressed, from one sender, with the keyword or without it
FrameEvents ==
    { e \in Events : e.is_at /\ e.sender_id = <<"u", "1">>
                     /\ e.message_str \in { <<"t", "d">>, <<"x">> } }

\* one thread calling the StateManager's methods while the handler serves
\* messages
NextFrame ==
    \/ Tick
    \/ ReadClock(1)
    \/ \E s \in Sessions : ActivateLocked(1, s)
    \/ \E s \in Sessions : IsActiveLocked(1, s)
    \/ RemainingLocked(1)
    \/ \E s \in Sessions : Deactivate(1, s)
    \/ \E e \in FrameEvents : HandlerReceive(e)
    \/ HandlerEnter
    \/ HandlerActivate

InitFrame == InitWith(Config(1, 1, MaxCap))

SpecFrame == InitFrame /\ [][NextFrame]_vars

\* ------------------------------------------------------------------ burst
\* A burst of activate_state calls from the empty registry, each for a key of
\* its own, during which no entry expires: the clock stops short of every end
\* time, those of the entries and those the calls in flight will insert.
BurstDuration == Seconds(config.state_duration_seconds)

\* the conversations of a burst: three distinct keys
BurstSessions == Sessions \cup { [platform |-> <<"p">>, session_id |-> <<"b">>] }

BurstTick ==
    /\ \A k \in DOMAIN active_states : clock + 1 < active_states[k]
    /\ \A i \in Threads : InFlight(i) => clock + 1 < th[i].t + BurstDuration
    /\ Tick

BurstActivate(i, s) ==
    /\ KeyOf(s) \notin DOMAIN burst
    /\ ActivateSection(i, s)
    /\ burst' = Put(burst, KeyOf(s), ActivateReturns(i, s).reason)

NextBurst ==
    \/ BurstTick
    \/ \E i \in Threads : ReadClock(i)
    \/ \E i \in Threads, s \in BurstSessions : BurstActivate(i, s)

SpecBurst == Init /\ [][NextBurst]_vars

\* ----------------------------------------------------------------- claims
\* the expiry of key k's last successful activation: t + d
LastEnd(k) == lastAct[k].t + Seconds(lastAct[k].d)

\* the end of the cooldown of key k's last successful activation: t + c
LastCooldownEnd(k) == lastAct[k].t + Seconds(lastAct[k].c)

\* C1: in every reachable state, whatever the interleaving of activate_state,
\* is_state_active, get_remaining_time, deactivate_state and
\* get_active_states_info calls, active_states holds at most
\* max_concurrent_states entries, and every session has at most one
\* ActiveState and at most one CooldownEntry.
C1_CapacityNeverExceeded ==
    /\ Cardinality(DOMAIN active_states) <= max_concurrent_states
    /\ \A s \in Sessions :
        /\ Cardinality({ k \in DOMAIN active_states : k = KeyOf(s) }) <= 1
        /\ Cardinality({ k \in DOMAIN cooldowns : k = KeyOf(s) }) <= 1

\* C1's case: the registry is full of live entries and a call in flight would
\* be refused for capacity
C1_Witness ==
    /\ Cardinality(DOMAIN active_states) = max_concurrent_states
    /\ \E i \in Threads, s \in Sessions :
        InFlight(i) /\ ActivateReturns(i, s).reason = "capacity"

\* C2: in a burst of activate_state calls for pairwise distinct keys from the
\* empty registry, with no entry expiring meanwhile, once max_concurrent_states
\* or more calls have returned and none is in flight, exactly
\* max_concurrent_states of them succeeded and every other failed for
\* capacity; and the registry never holds more than max_concurrent_states.
C2_BurstSuccesses ==
    /\ Cardinality(DOMAIN active_states) <= max_concurrent_states
    /\ (/\ \A i \in Threads : ~InFlight(i)
        /\ Cardinality(DOMAIN burst) >= max_concurrent_states)
       => /\ Cardinality({ k \in DOMAIN burst : burst[k] = "activated" }) = max_concurrent_states
          /\ \A k \in DOMAIN burst : burst[k] \in {"activated", "capacity"}

\* C2's case: more calls than the cap have returned, one of them refused
C2_Witness ==
    /\ \A i \in Threads : ~InFlight(i)
    /\ Cardinality(DOMAIN burst) > max_concurrent_states
    /\ \E k \in DOMAIN burst : burst[k] = "capacity"

\* C3: a query made right after a successful activate_state(key, d, c), the
\* clock not having advanced since the activation read it: is_state_active
\* returns true and get_remaining_time returns r with 0 < r <= d.
C3_ActiveRightAfterActivation ==
    \A i \in Threads, s \in Sessions :
        LET k == KeyOf(s) IN
        (/\ InFlight(i) /\ th[i].t = clock
         /\ k \in DOMAIN lastAct /\ lastAct[k].t = clock /\ ~lastAct[k].deact)
        => /\ IsActiveReturns(i, s).ok
           /\ 0 < RemainingReturns(i, s)
           /\ RemainingReturns(i, s) <= lastAct[k].d

\* C3's case: a query in flight right after an activation, later than time 0
C3_Witness ==
    \E i \in Threads, k \in DOMAIN lastAct :
        /\ InFlight(i) /\ th[i].t = clock /\ clock > 0
        /\ lastAct[k].t = clock /\ ~lastAct[k].deact

\* C4: key was activated at time t for d seconds.  An is_state_active(key)
\* that read the clock at t + d or later returns false and leaves no entry of
\* the key; one whose locked check runs before t + d, the entry not having
\* been deactivated, returns true and leaves the entry as it is.
C4_ExpiryOnAccess ==
    \A i \in Threads, s \in Sessions :
        LET k == KeyOf(s)
            o == IsActiveReturns(i, s)
        IN  (InFlight(i) /\ k \in DOMAIN lastAct)
            => /\ th[i].t >= LastEnd(k) => (~o.ok /\ k \notin DOMAIN o.as)
               /\ (clock < LastEnd(k) /\ ~lastAct[k].deact)
                  => (o.ok /\ o.as = active_states /\ k \in DOMAIN o.as /\ o.as[k] = LastEnd(k))

\* C4's case: the expired entry is still in the map when the query reaches it
C4_Witness ==
    \E i \in Threads, k \in DOMAIN active_states :
        /\ InFlight(i) /\ k \in DOMAIN lastAct
        /\ th[i].t >= LastEnd(k)
        /\ active_states[k] = LastEnd(k)

\* C5: key was activated at time t with cooldown c.  Every activate_state on
\* the key whose locked section runs before t + c fails with the cooldown
\* reason and changes nothing, whether the key's ActiveState is live, expired
\* or removed.
C5_CooldownBlocksReactivation ==
    \A i \in Threads, s \in Sessions :
        LET k == KeyOf(s)
            o == ActivateReturns(i, s)
        IN  (InFlight(i) /\ k \in DOMAIN lastAct /\ clock < LastCooldownEnd(k))
            => (~o.ok /\ o.reason = "cooldown" /\ o.as = active_states /\ o.cd = cooldowns)

\* C5's case: d < c, the ActiveState has expired and been purged, the cooldown
\* is live, and a later call is in flight
C5_Witness ==
    \E i \in Threads, k \in DOMAIN lastAct :
        /\ InFlight(i) /\ th[i].t >= LastEnd(k)
        /\ clock < LastCooldownEnd(k)
        /\ k \notin DOMAIN active_states /\ ~lastAct[k].deact

\* C6: deactivate_state(key) returns true iff the key had an ActiveState,
\* leaves none and leaves cooldowns as it was.  Once a key is deactivated (and
\* until it is activated again) it has no ActiveState, is_state_active(key)
\* returns false, and before the end t + c of the original cooldown the
\* CooldownEntry is still t + c and activate_state fails with the cooldown
\* reason.
C6_DeactivateKeepsCooldown ==
    /\ \A s \in Sessions :
        LET o == DeactivateReturns(s) IN
        /\ o.ok = (KeyOf(s) \in DOMAIN active_states)
        /\ KeyOf(s) \notin DOMAIN o.as
        /\ o.cd = cooldowns
    /\ \A s \in Sessions :
        LET k == KeyOf(s) IN
        (k \in DOMAIN lastAct /\ lastAct[k].deact)
        => /\ k \notin DOMAIN active_states
           /\ \A i \in Threads : InFlight(i) => ~IsActiveReturns(i, s).ok
           /\ clock < LastCooldownEnd(k)
              => /\ k \in DOMAIN cooldowns /\ cooldowns[k] = LastCooldownEnd(k)
                 /\ \A i \in Threads :
                      InFlight(i) => ActivateReturns(i, s).reason = "cooldown"

\* C6's case: a live ActiveState was deactivated inside its cooldown window
\* and a call read the clock after that
C6_Witness ==
    \E i \in Threads, k \in DOMAIN lastAct :
        /\ lastAct[k].deact
        /\ clock < LastEnd(k) /\ clock < LastCooldownEnd(k)
        /\ InFlight(i) /\ th[i].t > lastAct[k].t

\* C7: with max_concurrent_states = 1, an activate_state for a key never
\* activated before succeeds on the empty registry; while another key A is
\* live it fails with the capacity reason and creates neither an ActiveState
\* nor a CooldownEntry for its key; once A's expiry has passed it succeeds,
\* the expired A being purged inside activate_state.
C7_CapacityOneScenario ==
    max_concurrent_states = 1 =>
    \A i \in Threads, s \in Sessions :
        LET b == KeyOf(s)
            o == ActivateReturns(i, s)
        IN  (InFlight(i) /\ b \notin DOMAIN lastAct)
            => /\ DOMAIN active_states = {} => o.ok
               /\ \A a \in DOMAIN active_states :
                    /\ clock < active_states[a]
                       => (o.reason = "capacity" /\ b \notin DOMAIN o.as /\ b \notin DOMAIN o.cd)
                    /\ clock >= active_states[a]
                       => (o.ok /\ DOMAIN o.as = {b})

\* C7's case: B was activated after A expired, A never having been deactivated
C7_Witness ==
    /\ max_concurrent_states = 1
    /\ \E a \in DOMAIN lastAct, b \in DOMAIN active_states :
        /\ a # b /\ b \in DOMAIN lastAct
        /\ ~lastAct[a].deact
        /\ lastAct[b].t >= LastEnd(a)

\* the event of the message the handler handled last comes from someone the
\* configuration does not let through
Outsider(e) ==
    /\ ~config.admin_only_mode
    /\ config.authorized_users # <<>>
    /\ \A n \in 1..Len(config.authorized_users) : config.authorized_users[n] # UserOf(e)

\* the keywords of the configuration, by index, that are substrings of the
\* lower-cased cleaned text of event e
Hits(e) ==
    LET cleaned == LowerStr(clean_message_content(Strip(e.message_str)))
    IN  { n \in 1..Len(config.trigger_keywords) :
            Contains(cleaned, LowerStr(config.trigger_keywords[n])) }

\* C8: a message that is not addressed to the bot (is_at false) never
\* triggers, whatever its text, sender and configuration: should_trigger
\* refuses it, the handler returns without entering activate_state and without
\* a reply, and the step that handles it leaves both maps of the registry as
\* they were.
C8_NotAddressedNeverTriggers ==
    /\ [](~handler.ev.is_at
          => ~handler.trig.ok /\ handler.pc = "idle" /\ handler.reply = <<>>)
    /\ [][(handler' # handler /\ ~handler'.ev.is_at)
          => UNCHANGED <<active_states, cooldowns>>]_vars

\* C8's case: the message would have triggered had it been addressed to the bot
C8_Witness ==
    /\ ~handler.ev.is_at
    /\ handler.ev.session.session_id # Empty
    /\ handler.trig.reason = "not_at"
    /\ should_trigger([handler.ev EXCEPT !.is_at = TRUE], config).ok

\* C9: the enabled, mention, permission and non-empty checks having passed,
\* should_trigger accepts the message iff some configured keyword, lower-cased,
\* is a substring of the lower-cased cleaned message, and then the reason
\* names the first such keyword of the configured list.
C9_KeywordMatchIsSubstring ==
    LET e == handler.ev IN
    (/\ config.enabled
     /\ e.is_at
     /\ (config.admin_only_mode \/ ~Outsider(e))
     /\ Strip(e.message_str) # Empty)
    => /\ handler.trig.ok = (Hits(e) # {})
       /\ Hits(e) # {}
          => /\ handler.trig.reason = "matched"
             /\ \E n \in Hits(e) :
                  /\ \A m \in Hits(e) : n <= m
                  /\ handler.trig.keyword = config.trigger_keywords[n]

\* C9's case: the raw text matches no keyword as it stands (its case differs,
\* or a mention code splits it), the cleaned lower-cased text does, and either
\* both configured keywords match or only the second does
C9_Witness ==
    /\ handler.trig.ok
    /\ Len(config.trigger_keywords) = 2
    /\ \A n \in 1..Len(config.trigger_keywords) :
         ~Contains(handler.ev.message_str, config.trigger_keywords[n])
    /\ Hits(handler.ev) # {}

C11_PromptInjectedIffActive ==
    [][(llm.pc = "locked" /\ llm'.pc = "idle")
       => LET active == IsActiveOutcome(active_states, KeyOf(llm.session), llm.t).ok
          IN  /\ (llm'.system_prompt # llm.prev) <=> active
              /\ (active /\ config_loads)
                    => LET rendered == Render(CurrentConfig.system_prompt_template,
                                              CurrentConfig.interactive_item_name,
                                              CurrentConfig.sensitivity_level)
                       IN  llm'.system_prompt =
                             IF llm.prev # <<>> THEN rendered \o <<"\n\n">> \o llm.prev
                             ELSE rendered]_vars

\* C12: update_config always terminates and leaves the configuration lock
\* free: a thread that is inside update_config (or any command) and about to
\* enter _save_config, which waits for the lock, is never the thread holding
\* that lock, for then it would wait for itself forever and no later save
\* could complete.
C12_UpdateConfigTerminates ==
    \A a \in AdminThreads : admin[a].pc = "save" => config_lock # a

\* C13: concurrent configuration updates are serialized, no update is lost:
\* when the save of an admin command completes, the persisted configuration
\* differs from the one persisted just before only by that command's own
\* update; the sensitivity another command set and the users another command
\* added stay, and the users another command removed stay removed.
C13_NoUpdateLost ==
    [][\A a \in AdminThreads :
         (admin[a].pc = "writing" /\ admin'[a].pc = "idle")
         => /\ admin[a].op # "sensitivity"
                 => config'.sensitivity_level = config.sensitivity_level
            /\ \A u \in UserArgs \ {<<>>} :
                 /\ (InList(u, config.authorized_users)
                       /\ ~(admin[a].op = "deluser" /\ admin[a].arg = u))
                      => InList(u, config'.authorized_users)
                 /\ (~InList(u, config.authorized_users)
                       /\ ~(admin[a].op = "adduser" /\ admin[a].arg = u))
                      => ~InList(u, config'.authorized_users)]_vars

\* C14: whenever the handler moves, the replies it has emitted for its message
\* are: exactly one failure reply (cooldown, already active or capacity) if the
\* step is activate_state failing for a message that triggered, and none
\* otherwise, that is none when activate_state succeeds, none before
\* activate_state has returned, and none for a message that does not trigger.
C14_ReplyOnlyOnFailure ==
    [][handler' # handler
       => IF handler.pc = "locked" /\ handler'.pc = "idle" /\ ~HandlerActivateReturns.ok
          THEN /\ handler.trig.ok
               /\ Len(handler'.reply) = 1
               /\ handler'.reply[1] =
                    CASE HandlerActivateReturns.reason = "cooldown" -> "reply_cooldown"
                      [] HandlerActivateReturns.reason = "active" -> "reply_active"
                      [] HandlerActivateReturns.reason = "capacity" -> "reply_capacity"
          ELSE handler'.reply = <<>>]_vars

\* an activation has succeeded silently for one conversation and the message of
\* another was answered with the capacity failure reply
C14_Witness ==
    /\ handler.pc = "idle"
    /\ handler.trig.ok
    /\ handler.reply = << "reply_capacity" >>
    /\ DOMAIN active_states # {}
    /\ KeyOf(handler.ev.session) \notin DOMAIN active_states

\* C15: session keys are unique per conversation: an ActiveState or a
\* CooldownEntry in the registry is the entry of one conversation only, no two
\* distinct (platform, session id) pairs have generate_state_key return its
\* key, so that activating or deactivating one conversation never touches
\* the entry of another.
C15_KeysUniquePerConversation ==
    \A s1, s2 \in Sessions :
        (s1 # s2 /\ KeyOf(s1) \in (DOMAIN active_states) \cup (DOMAIN cooldowns))
        => generate_state_key(s2.session_id, s2.platform)
             # generate_state_key(s1.session_id, s1.platform)

\* C16: every activation decision uses the configuration fetched for that
\* activation: what activate_state does and returns for the handler is what it
\* would with the duration, the cooldown and the max_concurrent_states of the
\* record the handler fetched, so a changed max_concurrent_states is enforced
\* by the next activation.
C16_ActivationUsesFetchedConfig ==
    [][(handler.pc = "locked" /\ handler'.pc = "idle")
       => LET fetched == ActivateOutcome(active_states, cooldowns,
                                         handler.config.max_concurrent_states,
                                         KeyOf(handler.ev.session), handler.t,
                                         handler.config.state_duration_seconds,
                                         handler.config.cooldown_seconds, clock)
          IN  /\ active_states' = fetched.as
              /\ cooldowns' = fetched.cd
              /\ handler'.reply = HandlerReply(fetched)]_vars

\* C17: contract-violating admin inputs are rejected without mutating the
\* configuration: a command that answers with a rejection (usage, not a
\* number, out of range, already listed, not listed) leaves the configuration
\* file as it was; no imm_sensitivity with a non-numeric or out-of-range value,
\* no imm_adduser of a listed user and no imm_deluser of an unlisted one gets
\* as far as saving; hence sensitivity_level always stays within [0, 100] and
\* authorized_users never holds a user twice.
C17_RejectedInputsChangeNothing ==
    /\ [](/\ config.sensitivity_level \in SensitivityMin..SensitivityMax
          /\ \A m, n \in 1..Len(config.authorized_users) :
                m # n => config.authorized_users[m] # config.authorized_users[n]
          /\ \A a \in AdminThreads :
                admin[a].pc \in {"save", "writing"}
                => /\ admin[a].op = "sensitivity"
                        => /\ IsInt(admin[a].arg)
                           /\ IntOf(admin[a].arg) \in SensitivityMin..SensitivityMax
                           /\ admin[a].local.sensitivity_level = IntOf(admin[a].arg)
                   /\ admin[a].op \in {"adduser", "deluser"}
                        => /\ admin[a].arg # <<>>
                           /\ \A m, n \in 1..Len(admin[a].local.authorized_users) :
                                 m # n => admin[a].local.authorized_users[m]
                                            # admin[a].local.authorized_users[n])
    /\ [][\A a \in AdminThreads :
            (admin'[a] # admin[a]
               /\ admin'[a].reply \in {"usage", "not_a_number", "out_of_range",
                                       "already_listed", "not_listed"})
            => /\ config' = config
               /\ config_loads' = config_loads
               /\ admin'[a].pc = "idle"]_vars

\* the sensitivity is at its upper bound and one user is listed, after one
\* command was rejected as out of range and another as already listed
C17_Witness ==
    /\ config.sensitivity_level = SensitivityMax
    /\ Len(config.authorized_users) = 1
    /\ \E a, b \in AdminThreads :
          /\ admin[a].reply = "out_of_range"
          /\ admin[b].reply = "already_listed"

\* C18: activate_state evaluates its checks in the order cooldown, already
\* active, purge, capacity.  For every call in flight: if the key's cooldown is
\* live the call fails with the cooldown reason, even when the key is also
\* live and the registry is full; else if the key's ActiveState is live it
\* fails with the already-active reason, even when the registry is full; only
\* otherwise is the capacity checked, against the entries left by the purge;
\* and only when all three pass are ActiveState{key, now + duration} and
\* CooldownEntry{key, now + cooldown} inserted.
C18_OrderOfChecks ==
    \A i \in Threads, s \in Sessions :
        InFlight(i) =>
        LET k == KeyOf(s)
            now == th[i].t
            o == ActivateReturns(i, s)
            others == { x \in DOMAIN active_states : x # k /\ clock < active_states[x] }
        IN  IF k \in DOMAIN cooldowns /\ now < cooldowns[k]
            THEN ~o.ok /\ o.reason = "cooldown"
                 /\ o.as = active_states /\ o.cd = cooldowns
            ELSE IF k \in DOMAIN active_states /\ now < active_states[k]
            THEN ~o.ok /\ o.reason = "active"
                 /\ o.as = active_states /\ o.cd = cooldowns
            ELSE IF Cardinality(others) >= max_concurrent_states
            THEN ~o.ok /\ o.reason = "capacity"
                 /\ k \notin DOMAIN o.as
                 /\ (k \in DOMAIN o.cd => o.cd[k] = cooldowns[k])
            ELSE /\ o.ok
                 /\ DOMAIN o.as = others \cup {k}
                 /\ o.as[k] = now + config.state_duration_seconds * TicksPerSecond
                 /\ o.cd[k] = now + config.cooldown_seconds * TicksPerSecond
                 /\ \A x \in others : o.as[x] = active_states[x]

\* C18's case: a call is in flight for a key whose cooldown and ActiveState
\* are both live while the registry is full, and it fails for the cooldown
C18_Witness ==
    \E i \in Threads, s \in Sessions :
        /\ InFlight(i)
        /\ KeyOf(s) \in DOMAIN cooldowns /\ th[i].t < cooldowns[KeyOf(s)]
        /\ KeyOf(s) \in DOMAIN active_states /\ th[i].t < active_states[KeyOf(s)]
        /\ Cardinality({ x \in DOMAIN active_states : clock < active_states[x] })
             >= max_concurrent_states
        /\ ActivateReturns(i, s).reason = "cooldown"

\* C19: should_trigger applies its checks in the order enabled, addressed to
\* the bot, permission, non-empty message, keyword match, and the reason it
\* returns is that of the first check that fails; in particular an addressed,
\* permitted message whose text is empty once the mention markup ("@token",
\* CQ at-tags) is removed gets the empty-message reason, not the keyword one.
C19_ReasonOfFirstFailingCheck ==
    handler.trig.reason # ""
    => handler.trig.reason =
         IF ~config.enabled THEN "disabled"
         ELSE IF ~handler.ev.is_at THEN "not_at"
         ELSE IF ~(\/ config.admin_only_mode
                   \/ config.authorized_users = <<>>
                   \/ \E n \in 1..Len(config.authorized_users) :
                        config.authorized_users[n] = UserOf(handler.ev))
         THEN "no_permission"
         ELSE IF clean_message_content(handler.ev.message_str) = Empty THEN "empty"
         ELSE IF \E n \in 1..Len(config.trigger_keywords) :
                    KeywordMatches(config.trigger_keywords[n],
                                   clean_message_content(handler.ev.message_str))
         THEN "matched"
         ELSE "no_keyword"

\* C20: get_remaining_time(key) returns an integer >= 0 in every state: 0 when
\* the key has no ActiveState or its expiry has passed, otherwise the whole
\* seconds left; and the call changes neither active_states nor cooldowns.
C20_RemainingTimeNeverNegative ==
    /\ [](\A i \in Threads, s \in Sessions :
            InFlight(i) =>
            LET k == KeyOf(s)
                r == RemainingReturns(i, s)
            IN  /\ r \in Nat
                /\ (k \notin DOMAIN active_states \/ th[i].t >= active_states[k]) => r = 0
                /\ (k \in DOMAIN active_states /\ th[i].t < active_states[k])
                     => r = (active_states[k] - th[i].t) \div TicksPerSecond)
    /\ [][(\E i \in Threads : RemainingLocked(i))
          => UNCHANGED <<active_states, cooldowns>>]_vars

\* C20's case: a query is in flight for a key whose ActiveState expired a
\* second or more before the query's clock read and is still in the map
C20_Witness ==
    \E i \in Threads, s \in Sessions :
        /\ InFlight(i)
        /\ KeyOf(s) \in DOMAIN active_states
        /\ th[i].t - active_states[KeyOf(s)] >= TicksPerSecond
        /\ RemainingReturns(i, s) = 0

\* C21: get_active_states_info purges every expired ActiveState and
\* CooldownEntry before it builds its result: after the call both maps hold
\* exactly their entries that were unexpired, unaltered; the mapping returned
\* has exactly the keys whose ActiveState is unexpired, each with
\* remaining_seconds >= 0.
C21_SnapshotPurgesFirst ==
    [][\A i \in Threads :
         InfoLocked(i)
         => LET live == { k \in DOMAIN active_states : clock < active_states[k] }
                cool == { k \in DOMAIN cooldowns : clock < cooldowns[k] }
                info == ActiveStatesInfo(active_states', th[i].t)
            IN  /\ DOMAIN active_states' = live
                /\ \A k \in live : active_states'[k] = active_states[k]
                /\ DOMAIN cooldowns' = cool
                /\ \A k \in cool : cooldowns'[k] = cooldowns[k]
                /\ DOMAIN info = live
                /\ \A k \in live : info[k] \in Nat
                                   /\ info[k] = (active_states[k] - th[i].t) \div TicksPerSecond
       ]_vars

\* C21's case: a snapshot call is in flight while the map holds an expired
\* ActiveState next to a live one, and an expired CooldownEntry
C21_Witness ==
    \E i \in Threads :
        /\ InFlight(i)
        /\ \E k \in DOMAIN active_states : clock >= active_states[k]
        /\ \E k \in DOMAIN active_states : clock < active_states[k]
        /\ \E k \in DOMAIN cooldowns : clock >= cooldowns[k]

\* C22: the whole decision of is_state_active and of activate_state, the clock
\* value it compares against included, is taken atomically inside the lock:
\* is_state_active returns true only if the key's end time is later than the
\* clock at the moment its locked check runs, and what activate_state decides
\* and does is what its checks give for one and the same current time, a time
\* at which the call was running.
C22_DecisionUsesLockedClock ==
    \A i \in Threads, s \in Sessions :
        InFlight(i) =>
        /\ IsActiveReturns(i, s).ok => clock < active_states[KeyOf(s)]
        /\ \E now \in th[i].t..clock :
              LET o == ActivateReturns(i, s)
                  one == ActivateOutcome(active_states, cooldowns, max_concurrent_states,
                                         KeyOf(s), now, config.state_duration_seconds,
                                         config.cooldown_seconds, now)
              IN  /\ o.ok = one.ok
                  /\ o.reason = one.reason
                  /\ o.ok => /\ o.as[KeyOf(s)] = one.as[KeyOf(s)]
                             /\ o.cd[KeyOf(s)] = one.cd[KeyOf(s)]

\* C23: imm_clear removes every live ActiveState.  In every turn of its loop
\* the key taken from the snapshot, split at the first "_" and passed back
\* through deactivate_state and generate_state_key, addresses that same key:
\* after the turn the key has no ActiveState, every other ActiveState is as it
\* was, and cooldowns are untouched; so when the loop ends without an
\* activation in between the registry holds no ActiveState and the count
\* reported is the number of entries removed.
C23_ClearRemovesEverySnapshotKey ==
    [][\A a \in AdminThreads :
         (admin[a].pc = "clearing" /\ admin'[a].arg # admin[a].arg)
         => \A k \in admin[a].arg \ admin'[a].arg :
               /\ k \notin DOMAIN active_states'
               /\ \A x \in (DOMAIN active_states) \ {k} :
                     x \in DOMAIN active_states' /\ active_states'[x] = active_states[x]
               /\ cooldowns' = cooldowns]_vars

\* the entries of every key other than k are left as they are: none is added,
\* none changes its end, and none that is unexpired by the clock is removed
OthersKept(k) ==
    /\ \A x \in (DOMAIN active_states') \ {k} :
          x \in DOMAIN active_states /\ active_states'[x] = active_states[x]
    /\ \A x \in (DOMAIN cooldowns') \ {k} :
          x \in DOMAIN cooldowns /\ cooldowns'[x] = cooldowns[x]
    /\ \A x \in (DOMAIN active_states) \ {k} :
          clock < active_states[x] => x \in DOMAIN active_states'
    /\ \A x \in (DOMAIN cooldowns) \ {k} :
          clock < cooldowns[x] => x \in DOMAIN cooldowns'

C25_FailedActivationOnlyPurges ==
    [][\A i \in Threads, s \in Sessions :
         (ActivateLocked(i, s) /\ ~ActivateReturns(i, s).ok)
         => /\ \A x \in DOMAIN active_states' :
                  x \in DOMAIN active_states /\ active_states'[x] = active_states[x]
            /\ \A x \in DOMAIN cooldowns' :
                  x \in DOMAIN cooldowns /\ cooldowns'[x] = cooldowns[x]
            /\ \A x \in (DOMAIN active_states) \ DOMAIN active_states' :
                  clock >= active_states[x]
            /\ \A x \in (DOMAIN cooldowns) \ DOMAIN cooldowns' :
                  clock >= cooldowns[x]
            /\ lastAct' = lastAct]_vars

\* C25's case: a call in flight that will be refused for capacity and will
\* purge an expired CooldownEntry on the way, while the live ActiveState that
\* fills the registry stays
C25_Witness ==
    \E i \in Threads, s \in Sessions :
        /\ InFlight(i)
        /\ ActivateReturns(i, s).reason = "capacity"
        /\ ActivateReturns(i, s).cd # cooldowns
        /\ ActivateReturns(i, s).as = active_states
        /\ active_states # EmptyDict

\* C26: a live ActiveState is never extended.  Every entry of active_states
\* ends at t + d of the key's last successful activation; a step leaves an
\* entry that the clock has not reached either unchanged or removed; an
\* activate_state on a key whose entry is live is refused; and an
\* is_state_active that reads the clock at t + d or later finds the key
\* inactive.
C26_LiveStateNeverExtended ==
    /\ [](\A k \in DOMAIN active_states :
            k \in DOMAIN lastAct /\ active_states[k] = LastEnd(k))
    /\ [](\A i \in Threads, s \in Sessions :
            (InFlight(i) /\ KeyOf(s) \in DOMAIN active_states)
            => /\ clock < active_states[KeyOf(s)] => ~ActivateReturns(i, s).ok
               /\ th[i].t >= active_states[KeyOf(s)] => ~IsActiveReturns(i, s).ok)
    /\ [][\A k \in DOMAIN active_states :
            (clock < active_states[k] /\ k \in DOMAIN active_states')
            => (active_states'[k] = active_states[k] /\ lastAct'[k] = lastAct[k])]_vars

\* C26's case: an activate_state in flight, entered after the key's activation
\* and after its cooldown, on a key whose ActiveState is still live
C26_Witness ==
    \E i \in Threads, s \in Sessions :
        /\ InFlight(i)
        /\ KeyOf(s) \in DOMAIN active_states
        /\ clock < active_states[KeyOf(s)]
        /\ th[i].t > lastAct[KeyOf(s)].t
        /\ ActivateReturns(i, s).reason = "active"

\* C27: two successive successful activate_state calls on a key, at times
\* t1 < t2, the first with duration d and cooldown c, have t2 >= t1 + c, and
\* t2 >= t1 + d too unless deactivate_state removed the key's entry between
\* them, under any interleaving.
C27_SuccessiveActivationsSpaced ==
    [][\A i \in Threads, s \in Sessions :
         LET k == KeyOf(s) IN
         (/\ ActivateLocked(i, s)
          /\ ActivateReturns(i, s).ok
          /\ k \in DOMAIN lastAct
          /\ lastAct[k].t < th[i].t)
         => /\ th[i].t >= LastCooldownEnd(k)
            /\ ~lastAct[k].deact => th[i].t >= LastEnd(k)]_vars

\* C28: disabling the plugin stops new activations through the message
\* handler and ends no active session.  A message checked while the
\* configuration says enabled = false is not triggered; imm_toggle and its
\* save change neither active_states nor cooldowns; and before_llm_request,
\* which does not read enabled, gives every request of a session that
\* is_state_active found active the injected prompt.
C28_DisablingKeepsActiveSessions ==
    [][/\ \A e \in ToggleEvents :
             (HandlerReceive(e) /\ ~CurrentConfig.enabled)
             => (handler'.pc = "idle" /\ ~handler'.trig.ok)
       /\ (toggle_command(1) \/ SaveOpen(1) \/ SaveClose(1))
             => (active_states' = active_states /\ cooldowns' = cooldowns)
       /\ (LlmHook /\ llm'.active)
             => /\ llm'.system_prompt # llm.prev
                /\ Len(llm'.system_prompt) > Len(llm.prev)]_vars
====
